---- MODULE Spec2Model ----
(***************************************************************************)
(* ranger.core.runner: Context.squash_flags and Runner.__call__.           *)
(* One execute call is a sequence of steps (pc); the pager chaining of a   *)
(* piping call is the second hop of the same call.                         *)
(***************************************************************************)
EXTENDS Integers, Sequences, FiniteSets, TLC

\* Bounds of the model.
MaxCalls == 2      \* execute calls made on the one Runner
MaxNeg == 1        \* uppercase (negating) flags appended to a flag string
MaxLen == 3        \* length of the flag strings squash_flags is tried on

(* ------------------------------------------------------------------ *)
(* Flags                                                               *)
(* ------------------------------------------------------------------ *)

\* The flags __call__ evaluates, in the order of its clauses.
EvalOrder == <<"p", "s", "f", "w", "r", "t">>

LowerFlags == {"p", "s", "f", "w", "r", "t"}

UpperFlags == {"P", "S", "F", "W", "R", "T"}

\* The characters of flag strings: the flags, their uppercase forms, and a
\* character that is no letter.
Chars == LowerFlags \cup UpperFlags \cup {"1"}

\* ord() of the characters used.
ord == [c \in Chars |->
          CASE c = "1" -> 49  [] c = "F" -> 70  [] c = "P" -> 80  [] c = "R" -> 82
            [] c = "S" -> 83  [] c = "T" -> 84  [] c = "W" -> 87
            [] c = "f" -> 102 [] c = "p" -> 112 [] c = "r" -> 114
            [] c = "s" -> 115 [] c = "t" -> 116 [] c = "w" -> 119]

\* str.lower() of one character.
lower == [c \in Chars |->
            CASE c = "F" -> "f" [] c = "P" -> "p" [] c = "R" -> "r"
              [] c = "S" -> "s" [] c = "T" -> "t" [] c = "W" -> "w"
              [] OTHER -> c]

\* 'c in flags' for a flag string.
Has(flags, c) == \E i \in DOMAIN flags : flags[i] = c

\* ''.join(c for c in flags if c not in bad)
Without(flags, bad) == SelectSeq(flags, LAMBDA c : c \notin bad)

RECURSIVE SquashKeepsLower(_, _, _)
SquashKeepsLower(orig, i, cur) ==
    IF i > Len(orig) THEN cur
    ELSE SquashKeepsLower(orig, i + 1,
                          IF ord[orig[i]] <= 90
                          THEN Without(cur, {orig[i]})
                          ELSE cur)

RECURSIVE SquashFirstOnly(_, _, _)
SquashFirstOnly(orig, i, cur) ==
    IF i > Len(orig) THEN cur
    ELSE IF ord[orig[i]] <= 90
         THEN Without(cur, {orig[i], lower[orig[i]]})
         ELSE SquashFirstOnly(orig, i + 1, cur)

RECURSIVE SquashFrom(_, _, _)
\* The loop of squash_flags: it iterates over the string it started with
\* and rebinds self.flags on every uppercase character met.
SquashFrom(orig, i, cur) ==
    IF i > Len(orig) THEN cur
    ELSE SquashFrom(orig, i + 1,
                    IF ord[orig[i]] <= 90
                    THEN Without(cur, {orig[i], lower[orig[i]]})
                    ELSE cur)

squash_flags(flags) == SquashFrom(flags, 1, flags)

RECURSIVE PickFlags(_, _)
\* The lowercase flags of S written in the order of EvalOrder.
PickFlags(S, i) ==
    IF i > Len(EvalOrder) THEN <<>>
    ELSE (IF EvalOrder[i] \in S THEN <<EvalOrder[i]>> ELSE <<>>) \o PickFlags(S, i + 1)

\* The flag strings a caller passes: any set of lowercase flags followed by
\* at most MaxNeg uppercase flags, and "rfF".
FlagStrings ==
    { PickFlags(S, 1) \o n : S \in SUBSET LowerFlags,
                             n \in UNION { [1..k -> UpperFlags] : k \in 0..MaxNeg } }
      \cup {<<"r", "f", "F">>}

(* ------------------------------------------------------------------ *)
(* Values                                                              *)
(* ------------------------------------------------------------------ *)

\* An action: None, a command string (its words), or a list of tokens.
None == [kind |-> "none", toks |-> <<>>]

Str(words) == [kind |-> "str", toks |-> words]

List(toks) == [kind |-> "list", toks |-> toks]

isinstance_str(action) == action.kind = "str"

\* The actions a caller passes.
Actions == {None, Str(<<"cmd">>), List(<<"cmd">>)}

\* A file object or stream given as a spawn option; n tells whose it is.
Stream(k, n) == [k |-> k, n |-> n]

Absent == Stream("absent", 0)

\* **popen_kws of a call: the keys __call__ reads or writes.
Kws(shell, stdin) ==
    [shell |-> shell, executable |-> "absent", stdout |-> Absent,
     stderr |-> Absent, stdin |-> stdin, args |-> None]

\* Context(...) and the locals of __call__ at its start.
NewFrame(action, flags, wait, kws) ==
    [action |-> action, flags |-> flags, wait |-> wait, popen_kws |-> kws,
     toggle_ui |-> TRUE, pipe_output |-> FALSE, wait_for_enter |-> FALSE,
     error |-> "None", process |-> 0, opened |-> {}, ret |-> "run"]

NoFrame == NewFrame(None, <<>>, FALSE, Kws("absent", Absent))

\* Return values: False, None, or a process handle.
RetFalse == [k |-> "False", p |-> 0]

RetNone == [k |-> "None", p |-> 0]

RetProc(p) == IF p = 0 THEN RetNone ELSE [k |-> "proc", p |-> p]

Pending == [k |-> "pending", p |-> 0]

(* ------------------------------------------------------------------ *)
(* Defaults and flag clauses of __call__ (frame -> frame)              *)
(* ------------------------------------------------------------------ *)

\* if 'shell' not in popen_kws: popen_kws['shell'] = isinstance(action, str)
ShellDefault(f) ==
    IF f.popen_kws.shell = "absent"
    THEN [f EXCEPT !.popen_kws.shell = IF isinstance_str(f.action) THEN "true" ELSE "false"]
    ELSE f

\* if popen_kws['shell']: popen_kws['executable'] = os.environ['SHELL']
ExecutableDefault(f, SHELL) ==
    IF f.popen_kws.shell = "true"
    THEN IF SHELL = "set"
         THEN [f EXCEPT !.popen_kws.executable = "$SHELL"]
         ELSE [f EXCEPT !.ret = "KeyError"]
    ELSE f

\* stdout and stderr default to sys.stdout and sys.stderr.
StdDefault(f) ==
    IF f.ret # "run" THEN f
    ELSE [f EXCEPT
            !.popen_kws.stdout = IF @ = Absent THEN Stream("sys.stdout", 0) ELSE @,
            !.popen_kws.stderr = IF @ = Absent THEN Stream("sys.stderr", 0) ELSE @]

Defaults(f, SHELL) == StdDefault(ExecutableDefault(ShellDefault(f), SHELL))

ClausePKeepsUI(f) ==
    IF f.ret = "run" /\ Has(f.flags, "p")
    THEN [f EXCEPT !.popen_kws.stdout = Stream("PIPE", 0),
                   !.popen_kws.stderr = Stream("STDOUT", 0),
                   !.pipe_output = TRUE,
                   !.wait = FALSE]
    ELSE f

\* 'p': redirect output to the pager.
ClauseP(f) ==
    IF f.ret = "run" /\ Has(f.flags, "p")
    THEN [f EXCEPT !.popen_kws.stdout = Stream("PIPE", 0),
                   !.popen_kws.stderr = Stream("STDOUT", 0),
                   !.toggle_ui = FALSE,
                   !.pipe_output = TRUE,
                   !.wait = FALSE]
    ELSE f

\* 's': silent mode; c numbers the call that opens the two handles.
ClauseS(f, c) ==
    IF f.ret = "run" /\ Has(f.flags, "s")
    THEN [f EXCEPT !.opened = {Stream("devnull_writable", c), Stream("devnull_readable", c)},
                   !.popen_kws.stdout = Stream("devnull_writable", c),
                   !.popen_kws.stderr = Stream("devnull_writable", c),
                   !.popen_kws.stdin = Stream("devnull_readable", c),
                   !.toggle_ui = FALSE]
    ELSE f

ClauseFKeepsWait(f) ==
    IF f.ret = "run" /\ Has(f.flags, "f")
    THEN [f EXCEPT !.toggle_ui = FALSE]
    ELSE f

\* 'f': fork the process.
ClauseF(f) ==
    IF f.ret = "run" /\ Has(f.flags, "f")
    THEN [f EXCEPT !.toggle_ui = FALSE, !.wait = FALSE]
    ELSE f

ClauseWNoSanity(f) ==
    IF f.ret = "run" /\ Has(f.flags, "w")
    THEN [f EXCEPT !.wait_for_enter = TRUE]
    ELSE f

\* 'w': wait for enter-press afterward.
ClauseW(f) ==
    IF f.ret = "run" /\ Has(f.flags, "w") /\ ~f.pipe_output /\ f.wait
    THEN [f EXCEPT !.wait_for_enter = TRUE]
    ELSE f

\* 'sudo ' + (f_flag and '-b ' or '') + action, for both kinds of action.
SudoAction(action, f_flag) ==
    [action EXCEPT !.toks = <<"sudo">> \o (IF f_flag THEN <<"-b">> ELSE <<>>) \o @]

ClauseRKeepsWait(f, sudo) ==
    IF f.ret = "run" /\ Has(f.flags, "r")
    THEN IF sudo # "yes"
         THEN [f EXCEPT !.ret = "no_sudo"]
         ELSE [f EXCEPT !.action = SudoAction(@, Has(f.flags, "f")),
                        !.toggle_ui = TRUE]
    ELSE f

\* 'r': run with root privilege; sudo tells whether get_executables() has it.
ClauseR(f, sudo) ==
    IF f.ret = "run" /\ Has(f.flags, "r")
    THEN IF sudo # "yes"
         THEN [f EXCEPT !.ret = "no_sudo"]
         ELSE [f EXCEPT !.action = SudoAction(@, Has(f.flags, "f")),
                        !.toggle_ui = TRUE,
                        !.wait = TRUE]
    ELSE f

\* term + ' -e ' + action, for both kinds of action; get_term() gives "term".
TermAction(action) == [action EXCEPT !.toks = <<"term", "-e">> \o @]

\* 't': run in a new terminal window; display tells whether a display
\* (WAYLAND_DISPLAY, DISPLAY, darwin) is found.
ClauseT(f, display) ==
    IF f.ret = "run" /\ Has(f.flags, "t")
    THEN IF display # "yes"
         THEN [f EXCEPT !.ret = "no_display"]
         ELSE [f EXCEPT !.action = TermAction(@),
                        !.toggle_ui = FALSE,
                        !.wait = FALSE]
    ELSE f

\* popen_kws['args'] = action
SetArgs(f) == IF f.ret = "run" THEN [f EXCEPT !.popen_kws.args = f.action] ELSE f

EvalFlagsPLast(f, c, sudo, display) ==
    SetArgs(ClauseT(ClauseR(ClauseW(ClauseF(ClauseP(ClauseS(f, c)))), sudo), display))

\* The clauses in their fixed order.
EvalFlags(f, c, sudo, display) ==
    SetArgs(ClauseT(ClauseR(ClauseW(ClauseF(ClauseS(ClauseP(f), c))), sudo), display))

(* ------------------------------------------------------------------ *)
(* State                                                               *)
(* ------------------------------------------------------------------ *)

VARIABLES
    pc,          \* position of the caller / of __call__
    hop,         \* 0 between calls, 1 in the call, 2 in its pager invocation
    frame,       \* the Context and the locals of the running __call__
    arg,         \* the action the caller passed
    environ,     \* os.environ / installed tools as this call found them
    ui,          \* Runner.ui: "present" or "none"
    zombies,     \* Runner.zombies
    ncalls,      \* execute calls made so far
    openFiles,   \* null-device handles that are open
    log,         \* what this call passed to logfunc
    trace,       \* what this call did, in order
    signals,     \* what this call passed to fm.signal_emit
    result,      \* what the call returned
    suspended    \* ui.suspend() calls minus ui.initialize() calls

vars == <<pc, hop, frame, arg, environ, ui, zombies, ncalls, openFiles,
          log, trace, signals, result, suspended>>

Ev(name, p, out) == [ev |-> name, hop |-> hop, p |-> p, out |-> out]

\* Runner._log: hand the text to logfunc, return False.
_log(lg, text, action) == Append(lg, [text |-> text, action |-> action, hop |-> hop])

UnknownEnv == [SHELL |-> "unk", sudo |-> "unk", display |-> "unk"]

\* Runner.__init__: no zombies; the UI is optional.
Init ==
    /\ pc = "idle"
    /\ hop = 0
    /\ frame = NoFrame
    /\ arg = None
    /\ environ = UnknownEnv
    /\ ui \in {"present", "none"}
    /\ zombies = {}
    /\ ncalls = 0
    /\ openFiles = {}
    /\ log = <<>>
    /\ trace = <<>>
    /\ signals = <<>>
    /\ result = Pending
    /\ suspended = 0

(* ------------------------------------------------------------------ *)
(* Runner.__call__, step by step                                       *)
(* ------------------------------------------------------------------ *)

\* Entry: build the Context with the flags as passed, refuse an absent
\* action.
Enter(action, flags, wait, shell) ==
    /\ ncalls' = ncalls + 1
    /\ hop' = 1
    /\ arg' = action
    /\ environ' = UnknownEnv
    /\ trace' = <<>>
    /\ signals' = <<>>
    /\ IF action = None
       THEN /\ frame' = [NewFrame(action, flags, wait, Kws(shell, Absent))
                           EXCEPT !.ret = "no_action"]
            /\ log' = <<[text |-> "No way of determining the action!",
                         action |-> None, hop |-> 1]>>
            /\ result' = RetFalse
            /\ pc' = "returned"
       ELSE /\ frame' = NewFrame(action, flags, wait, Kws(shell, Absent))
            /\ log' = <<>>
            /\ result' = Pending
            /\ pc' = "squash"
    /\ UNCHANGED <<ui, zombies, openFiles, suspended>>

\* The caller invokes the Runner: any action, flag string, wait value and
\* shell override.  The handles of an earlier call are closed by then.
Call ==
    /\ pc = "idle"
    /\ ncalls < MaxCalls
    /\ openFiles = {}
    /\ \E action \in Actions, flags \in FlagStrings, wait \in BOOLEAN,
          shell \in {"absent", "true", "false"} : Enter(action, flags, wait, shell)

\* context.squash_flags(); the trace tells whether the flags changed.
Squash ==
    /\ pc = "squash"
    /\ frame' = [frame EXCEPT !.flags = squash_flags(@)]
    /\ trace' = Append(trace, Ev("squash_flags", 0,
                                 IF squash_flags(frame.flags) = frame.flags
                                 THEN "same" ELSE "changed"))
    /\ pc' = "defaults"
    /\ UNCHANGED <<hop, arg, environ, ui, zombies, ncalls, openFiles, log,
                   signals, result, suspended>>

\* The values os.environ['SHELL'] can have in this call.
ShellChoices(f) ==
    IF ShellDefault(f).popen_kws.shell = "true" /\ environ.SHELL = "unk"
    THEN {"set", "unset"}
    ELSE {environ.SHELL}

StepsNotifyFirst == <<"before", "suspend", "spawn", "else", "finally", "resume", "exit">>

\* The execution step of __call__ in program order: suspend the UI, notify
\* 'before', spawn, the else block, notify 'after' (finally), resume the
\* UI, return or call the pager.
Steps == <<"suspend", "before", "spawn", "else", "finally", "resume", "exit">>

\* The step that follows step p.
StepAfter(p) == Steps[(CHOOSE i \in DOMAIN Steps : Steps[i] = p) + 1]

\* What get_executables() and the display lookup can answer for these flags.
SudoChoices(f) ==
    IF Has(f.flags, "r") /\ environ.sudo = "unk" THEN {"yes", "no"} ELSE {environ.sudo}

DisplayChoices(f) ==
    IF Has(f.flags, "t") /\ environ.display = "unk" THEN {"yes", "no"} ELSE {environ.display}

\* Default spawn options; the SHELL lookup raises KeyError when it is unset.
\* The environment the call runs in is fixed here, for what the call can
\* read of it.
SetDefaults ==
    /\ pc = "defaults"
    /\ \E SHELL \in ShellChoices(frame), sudo \in SudoChoices(frame),
          display \in DisplayChoices(frame) :
         /\ frame' = Defaults(frame, SHELL)
         /\ environ' = [SHELL |-> SHELL, sudo |-> sudo, display |-> display]
         /\ pc' = IF frame'.ret = "KeyError" THEN "raised" ELSE "flags"
    /\ UNCHANGED <<hop, arg, ui, zombies, ncalls, openFiles, log, trace,
                   signals, result, suspended>>

\* The message of a failed precondition.
RetMessage(ret) ==
    IF ret = "no_sudo" THEN "Can not run with 'r' flag, sudo is not installed!"
    ELSE "Can not run with 't' flag, no display found!"

\* The flag clauses; a failed precondition logs and returns False.
Interpret ==
    /\ pc = "flags"
    /\ frame' = EvalFlags(frame, ncalls, environ.sudo, environ.display)
    /\ openFiles' = openFiles \cup frame'.opened
    /\ IF frame'.ret = "run"
       THEN /\ pc' = Steps[1]
            /\ UNCHANGED <<log, result>>
       ELSE /\ pc' = "returned"
            /\ log' = _log(log, RetMessage(frame'.ret), None)
            /\ result' = RetFalse
    /\ UNCHANGED <<hop, arg, environ, ui, zombies, ncalls, trace, signals, suspended>>

\* Runner._activate_ui: nothing without a UI; a raising UI is only logged.
_activate_ui(value, raises) ==
    IF ui = "none"
    THEN UNCHANGED <<trace, log, suspended>>
    ELSE IF value
         THEN /\ trace' = Append(trace, Ev("initialize", 0, IF raises THEN "raised" ELSE "ok"))
              /\ suspended' = suspended - 1
              /\ log' = IF raises THEN _log(log, "Failed to initialize UI", None) ELSE log
         ELSE /\ trace' = Append(trace, Ev("suspend", 0, IF raises THEN "raised" ELSE "ok"))
              /\ suspended' = suspended + 1
              /\ log' = IF raises THEN _log(log, "Failed to suspend UI", None) ELSE log

\* Whether the UI call raises: only a UI that is called can.
UIOutcomes(called) == IF called /\ ui = "present" THEN {FALSE, TRUE} ELSE {FALSE}

\* if toggle_ui: self._activate_ui(False)
SuspendUI ==
    /\ pc = "suspend"
    /\ IF frame.toggle_ui
       THEN \E raises \in UIOutcomes(TRUE) : _activate_ui(FALSE, raises)
       ELSE UNCHANGED <<trace, log, suspended>>
    /\ pc' = StepAfter("suspend")
    /\ UNCHANGED <<hop, frame, arg, environ, ui, zombies, ncalls, openFiles,
                   signals, result>>

\* signal_emit('runner.execute.before', popen_kws=popen_kws, context=context)
BeforeSignal(f) ==
    [name |-> "runner.execute.before", hop |-> hop, popen_kws |-> f.popen_kws,
     error |-> "None"]

EmitBefore ==
    /\ pc = "before"
    /\ signals' = Append(signals, BeforeSignal(frame))
    /\ trace' = Append(trace, Ev("before", 0, ""))
    /\ pc' = StepAfter("before")
    /\ UNCHANGED <<hop, frame, arg, environ, ui, zombies, ncalls, openFiles,
                   log, result, suspended>>

\* The handle of the process a hop spawns: a fresh one for every hop.
NewPid == 2 * (ncalls - 1) + hop

UsesForkedNever(f) == FALSE

\* if 'f' in context.flags and 'r' not in context.flags: Popen_forked
UsesForked(f) == Has(f.flags, "f") /\ ~Has(f.flags, "r")

\* What the chosen spawn primitive can do: Popen_forked answers True or
\* False, Popen answers a handle, either can raise OSError.
SpawnOutcomes(f) == IF UsesForked(f) THEN {"True", "False", "OSError"} ELSE {"ok", "OSError"}

OnOSErrorLost(f) == f

\* except OSError as ex: error = ex
OnOSError(f) == [f EXCEPT !.error = "OSError"]

AfterExceptSkips == "exit"

\* Where the except clause leaves to: the finally block.
AfterExcept == "finally"

\* The try block around the spawn.
Spawn ==
    /\ pc = "spawn"
    /\ \E out \in SpawnOutcomes(frame) :
         LET prim == IF UsesForked(frame) THEN "Popen_forked" ELSE "Popen"
             pid  == IF out = "ok" THEN NewPid ELSE 0
         IN /\ trace' = Append(trace, Ev(prim, pid, out))
            /\ IF out = "OSError"
               THEN /\ frame' = OnOSError(frame)
                    /\ log' = _log(log, "Failed to run: {action}", frame.action)
                    /\ pc' = AfterExcept
               ELSE /\ frame' = [frame EXCEPT !.process = pid]
                    /\ log' = log
                    /\ pc' = StepAfter("spawn")
    /\ UNCHANGED <<hop, arg, environ, ui, zombies, ncalls, openFiles, signals,
                   result, suspended>>

TracksAlways(f) == f.process # 0

\* if context.wait: ... elif process: self.zombies.add(process)
Tracks(f) == ~f.wait /\ f.process # 0

\* The else block: wait for the child or keep it as a zombie, then the
\* keypress.  process.wait() on None raises, which the return in the
\* finally block swallows.
WaitOrTrack ==
    /\ pc = "else"
    /\ LET waited == IF frame.wait
                     THEN IF frame.process = 0
                          THEN <<Ev("AttributeError", 0, "")>>
                          ELSE <<Ev("wait", frame.process, "")>>
                     ELSE IF Tracks(frame)
                          THEN <<Ev("zombie", frame.process, "")>>
                          ELSE <<>>
           raised == frame.wait /\ frame.process = 0
           prompt == IF frame.wait_for_enter /\ ~raised
                     THEN <<Ev("prompt", 0, "")>>
                     ELSE <<>>
       IN /\ trace' = trace \o waited \o prompt
          /\ zombies' = IF Tracks(frame)
                        THEN zombies \cup {frame.process}
                        ELSE zombies
    /\ pc' = StepAfter("else")
    /\ UNCHANGED <<hop, frame, arg, environ, ui, ncalls, openFiles, log,
                   signals, result, suspended>>

\* signal_emit('runner.execute.after', popen_kws=..., context=..., error=error)
AfterSignal(f) ==
    [name |-> "runner.execute.after", hop |-> hop, popen_kws |-> f.popen_kws,
     error |-> f.error]

EmitAfter ==
    /\ pc = "finally"
    /\ signals' = Append(signals, AfterSignal(frame))
    /\ trace' = Append(trace, Ev("after", 0, frame.error))
    /\ pc' = StepAfter("finally")
    /\ UNCHANGED <<hop, frame, arg, environ, ui, zombies, ncalls, openFiles,
                   log, result, suspended>>

ResumesOnSuccess(f) == f.toggle_ui /\ f.error = "None"

\* if toggle_ui: (in the finally block)
Resumes(f) == f.toggle_ui

\* if toggle_ui: self._activate_ui(True)
ResumeUI ==
    /\ pc = "resume"
    /\ IF Resumes(frame)
       THEN \E raises \in UIOutcomes(TRUE) : _activate_ui(TRUE, raises)
       ELSE UNCHANGED <<trace, log, suspended>>
    /\ pc' = StepAfter("resume")
    /\ UNCHANGED <<hop, frame, arg, environ, ui, zombies, ncalls, openFiles,
                   signals, result>>

\* if pipe_output and process:
Chains(f) == f.pipe_output /\ f.process # 0

\* process.stdout: a pipe when stdout=PIPE was asked for, else None.
StdoutOf(f) ==
    IF f.popen_kws.stdout = Stream("PIPE", 0)
    THEN Stream("pipe_of", f.process)
    ELSE Stream("None", 0)

\* return self(action='less', app='pager', try_app_first=True, stdin=process.stdout)
\* or return process.  The pager invocation runs as hop + 1 and its result
\* is the result of the call.
Exit ==
    /\ pc = "exit"
    /\ IF Chains(frame)
       THEN /\ hop' = hop + 1
            /\ frame' = NewFrame(Str(<<"less">>), <<>>, TRUE,
                                 Kws("absent", StdoutOf(frame)))
            /\ trace' = Append(trace, Ev("call", frame.process, ""))
            /\ pc' = "squash"
            /\ UNCHANGED result
       ELSE /\ result' = RetProc(frame.process)
            /\ pc' = "returned"
            /\ UNCHANGED <<hop, frame, trace>>
    /\ UNCHANGED <<arg, environ, ui, zombies, ncalls, openFiles, log,
                   signals, suspended>>

\* The caller has the result (or the exception) and goes on; the frames of
\* the call are gone.
FrameExit ==
    /\ pc \in {"returned", "raised"}
    /\ pc' = "idle"
    /\ hop' = 0
    /\ frame' = NoFrame
    /\ arg' = None
    /\ environ' = UnknownEnv
    /\ log' = <<>>
    /\ trace' = <<>>
    /\ signals' = <<>>
    /\ result' = Pending
    /\ UNCHANGED <<ui, zombies, ncalls, openFiles, suspended>>

\* The null-device handles are never closed by __call__: each stays open
\* until the garbage collector finalizes it, at some time after the call
\* that opened it has ended (the frames of the call held the last
\* references to it).
Finalize ==
    /\ pc \in {"returned", "raised", "idle"}
    /\ openFiles # {}
    /\ openFiles' = {}
    /\ UNCHANGED <<pc, hop, frame, arg, environ, ui, zombies, ncalls, log,
                   trace, signals, result, suspended>>

Next ==
    \/ Call
    \/ Squash
    \/ SetDefaults
    \/ Interpret
    \/ SuspendUI
    \/ EmitBefore
    \/ Spawn
    \/ WaitOrTrack
    \/ EmitAfter
    \/ ResumeUI
    \/ Exit
    \/ FrameExit
    \/ Finalize

Spec == Init /\ [][Next]_vars

(* ------------------------------------------------------------------ *)
(* squash_flags on its own                                             *)
(* ------------------------------------------------------------------ *)

\* Every flag string of at most MaxLen characters.
AnyFlags == UNION { [1..n -> Chars] : n \in 0..MaxLen }

\* Context(flags=x) for any flag string x; no call is running.
SquashInit ==
    /\ pc = "context"
    /\ hop = 0
    /\ \E x \in AnyFlags : frame = NewFrame(None, x, TRUE, Kws("absent", Absent))
    /\ arg = None
    /\ environ = UnknownEnv
    /\ ui \in {"present", "none"}
    /\ zombies = {}
    /\ ncalls = 0
    /\ openFiles = {}
    /\ log = <<>>
    /\ trace = <<>>
    /\ signals = <<>>
    /\ result = Pending
    /\ suspended = 0

\* context.squash_flags() on the new Context.
SquashOnce ==
    /\ pc = "context"
    /\ frame' = [frame EXCEPT !.flags = squash_flags(@)]
    /\ trace' = Append(trace, Ev("squash_flags", 0,
                                 IF squash_flags(frame.flags) = frame.flags
                                 THEN "same" ELSE "changed"))
    /\ pc' = "squashed"
    /\ UNCHANGED <<hop, arg, environ, ui, zombies, ncalls, openFiles, log,
                   signals, result, suspended>>

\* context.squash_flags() on the squashed Context.
SquashAgain ==
    /\ pc = "squashed"
    /\ frame' = [frame EXCEPT !.flags = squash_flags(@)]
    /\ trace' = Append(trace, Ev("squash_flags", 0,
                                 IF squash_flags(frame.flags) = frame.flags
                                 THEN "same" ELSE "changed"))
    /\ pc' = "resquashed"
    /\ UNCHANGED <<hop, arg, environ, ui, zombies, ncalls, openFiles, log,
                   signals, result, suspended>>

SquashNext ==
    \/ SquashOnce
    \/ SquashAgain

SpecSquash == SquashInit /\ [][SquashNext]_vars

(* ------------------------------------------------------------------ *)
(* Reading the record of a call                                        *)
(* ------------------------------------------------------------------ *)

\* The positions of the running hop from the UI suspension on.
Running == pc \in {"suspend", "before", "spawn", "else", "finally", "resume", "exit"}

\* The events of hop h with the given name, as positions in the trace.
EvOf(h, name) == { i \in DOMAIN trace : trace[i].hop = h /\ trace[i].ev = name }

\* The notifications of hop h with the given name.
SigOf(h, name) == { i \in DOMAIN signals : signals[i].hop = h /\ signals[i].name = name }

\* The spawn events of hop h.
SpawnsOf(h) == EvOf(h, "Popen") \cup EvOf(h, "Popen_forked")

\* The spawn of hop h returned (a handle, or True from the detached primitive).
SpawnOk(h) == \E i \in SpawnsOf(h) : trace[i].out \in {"ok", "True"}

\* The spawn of hop h raised an OS error.
SpawnRaised(h) == \E i \in SpawnsOf(h) : trace[i].out = "OSError"

\* The handles the hops of the running call can get.
CallPids == {2 * (ncalls - 1) + 1, 2 * (ncalls - 1) + 2}

\* The hops the call has been through.
Hops == 1..hop

(* ------------------------------------------------------------------ *)
(* C1                                                                  *)
(* ------------------------------------------------------------------ *)

\* C1: execute never raises to its caller; every call returns a value, and
\* a call that fails (a failed precondition, a spawn that raised) has
\* reported the failure through the log callback.
C1_NeverRaises ==
    /\ pc # "raised"
    /\ (pc = "returned" /\ (frame.ret # "run" \/ arg = None \/ SpawnRaised(hop)))
          => Len(log) > 0

(* ------------------------------------------------------------------ *)
(* C2                                                                  *)
(* ------------------------------------------------------------------ *)

\* C2 as stated: with 'p' among the squashed flags, whatever the other
\* flags, the wait value at the execution step is false and the UI is not
\* suspended.
C2_PipeNeverWaits ==
    (Running /\ Has(frame.flags, "p"))
        => (~frame.wait /\ ~frame.toggle_ui /\ EvOf(hop, "suspend") = {})

\* C2, amended: with 'p' among the squashed flags and 'r' either absent or
\* accompanied by 't', whatever the other flags, the wait value at the
\* execution step is false, and the hop neither suspends the UI nor waits
\* for its child.
C2_PipeWithoutRootNeverWaits ==
    (Running /\ Has(frame.flags, "p")
       /\ (~Has(frame.flags, "r") \/ Has(frame.flags, "t")))
        => /\ ~frame.wait
           /\ ~frame.toggle_ui
           /\ EvOf(hop, "suspend") = {}
           /\ EvOf(hop, "wait") = {}

\* A piping hop with 'r' and 't' both set has run to its end with a UI.
C2_Witness ==
    /\ pc = "exit"
    /\ ui = "present"
    /\ Has(frame.flags, "p") /\ Has(frame.flags, "r") /\ Has(frame.flags, "t")
    /\ SpawnOk(hop)

(* ------------------------------------------------------------------ *)
(* C3                                                                  *)
(* ------------------------------------------------------------------ *)

C4_SuspendResumePaired ==
    /\ suspended \in {0, 1}
    /\ pc \in {"idle", "returned", "raised", "exit", "squash", "defaults", "flags"}
          => suspended = 0
    /\ \A h \in Hops :
         /\ Cardinality(EvOf(h, "suspend")) <= 1
         /\ Cardinality(EvOf(h, "initialize")) <= Cardinality(EvOf(h, "suspend"))
         /\ \A i \in EvOf(h, "initialize") : \E j \in EvOf(h, "suspend") : j < i
         /\ (h < hop \/ pc \in {"exit", "returned"})
               => Cardinality(EvOf(h, "initialize")) = Cardinality(EvOf(h, "suspend"))

\* A call has returned after suspending the UI and seeing its spawn raise.
C4_Witness ==
    /\ pc = "returned"
    /\ EvOf(1, "suspend") # {}
    /\ SpawnRaised(1)

(* ------------------------------------------------------------------ *)
(* C5                                                                  *)
(* ------------------------------------------------------------------ *)

\* C5: a hop that passes the flag preconditions emits exactly one 'before'
\* notification and then exactly one 'after' notification, also when the
\* spawn fails; no hop emits 'after' without an earlier 'before'.
C5_BeforeThenAfter ==
    \A h \in Hops :
       /\ Cardinality(SigOf(h, "runner.execute.before")) <= 1
       /\ Cardinality(SigOf(h, "runner.execute.after"))
             <= Cardinality(SigOf(h, "runner.execute.before"))
       /\ \A i \in SigOf(h, "runner.execute.after") :
             \E j \in SigOf(h, "runner.execute.before") : j < i
       /\ (h < hop \/ (frame.ret = "run" /\ pc \in {"exit", "returned"}))
             => /\ Cardinality(SigOf(h, "runner.execute.before")) = 1
                /\ Cardinality(SigOf(h, "runner.execute.after")) = 1

\* A hop whose spawn raised has left its finally block.
C5_Witness ==
    /\ pc = "exit"
    /\ SpawnRaised(hop)
    /\ Cardinality(SigOf(hop, "runner.execute.after")) = 1

(* ------------------------------------------------------------------ *)
(* C6                                                                  *)
(* ------------------------------------------------------------------ *)

\* C6: when an execute call returns, no null-device handle that the call
\* opened for the 's' flag is still open.
C6_NullHandlesReleased ==
    pc = "returned" => { h \in openFiles : h.n = ncalls } = {}

(* ------------------------------------------------------------------ *)
(* C7                                                                  *)
(* ------------------------------------------------------------------ *)

\* The hop has left its finally block.
HopOver == pc \in {"exit", "returned"}

\* C7: when the spawn of a hop raises an OS error, the hop logs a message
\* with the action it attempted, its 'after' notification carries the
\* error, it yields "no process", puts nothing in the zombie set and does
\* not go on to the pager even with 'p' set; when the spawn does not fail
\* the 'after' notification carries no error.
C7_SpawnFailure ==
    /\ (HopOver /\ SpawnRaised(hop))
          => /\ \E i \in DOMAIN log :
                   /\ log[i].hop = hop
                   /\ log[i].text = "Failed to run: {action}"
                   /\ log[i].action = frame.popen_kws.args
             /\ \A i \in SigOf(hop, "runner.execute.after") : signals[i].error = "OSError"
             /\ SigOf(hop, "runner.execute.after") # {}
             /\ frame.process = 0
             /\ ~Chains(frame)
             /\ EvOf(hop, "zombie") = {}
             /\ EvOf(hop, "call") = {}
             /\ 2 * (ncalls - 1) + hop \notin zombies
             /\ pc = "returned" => result = RetNone
    /\ \A h \in Hops :
          ~SpawnRaised(h)
             => \A i \in SigOf(h, "runner.execute.after") : signals[i].error = "None"

\* A piping call has returned after its spawn raised.
C7_Witness ==
    /\ pc = "returned"
    /\ hop = 1
    /\ Has(frame.flags, "p")
    /\ SpawnRaised(1)

(* ------------------------------------------------------------------ *)
(* C8                                                                  *)
(* ------------------------------------------------------------------ *)

\* A precondition of the call fails: no action, 'r' without the escalation
\* tool, 't' without a display.
PreconditionFails ==
    /\ hop = 1
    /\ \/ arg = None
       \/ Has(frame.flags, "r") /\ environ.sudo = "no"
       \/ Has(frame.flags, "t") /\ environ.display = "no"

\* C8: when a precondition fails the call logs a message and returns "no
\* process" without side effects: no spawn primitive is invoked, the action
\* is not rewritten, no notification is emitted, the UI is neither
\* suspended nor resumed, the zombie set is unchanged.
C8_PreconditionFailure ==
    PreconditionFails
       => /\ pc # "raised"
          /\ ~Running
          /\ SpawnsOf(1) = {}
          /\ signals = <<>>
          /\ EvOf(1, "suspend") = {} /\ EvOf(1, "initialize") = {}
          /\ zombies \cap CallPids = {}
          /\ pc = "returned"
                => /\ Len(log) > 0
                   /\ result \in {RetFalse, RetNone}
                   /\ frame.action = arg

(* ------------------------------------------------------------------ *)
(* C9                                                                  *)
(* ------------------------------------------------------------------ *)

\* The detached primitive of hop h reported that nothing was spawned.
ForkUnavailable(h) == \E i \in EvOf(h, "Popen_forked") : trace[i].out = "False"

\* C9: when 'f' is set without 'r' and the detached primitive reports that
\* nothing was spawned, the call yields "no process", the blocking-capable
\* primitive is not invoked, the caller is not blocked (no wait, no
\* keypress read) and the zombie set is unchanged.
C9_ForkUnavailable ==
    (ForkUnavailable(hop) /\ pc \in {"finally", "resume", "exit", "returned"})
       => /\ Has(frame.flags, "f") /\ ~Has(frame.flags, "r")
          /\ EvOf(hop, "Popen") = {}
          /\ EvOf(hop, "wait") = {}
          /\ EvOf(hop, "prompt") = {}
          /\ EvOf(hop, "zombie") = {}
          /\ zombies \cap CallPids = {}
          /\ frame.process = 0
          /\ ~Chains(frame)
          /\ pc = "returned" => result = RetNone

\* A call with 'f', 'w' and 'p' has returned after the detached primitive
\* reported that nothing was spawned.
C9_Witness ==
    /\ pc = "returned"
    /\ ForkUnavailable(1)
    /\ Has(frame.flags, "w") /\ Has(frame.flags, "p")

(* ------------------------------------------------------------------ *)
(* C10                                                                 *)
(* ------------------------------------------------------------------ *)

\* C10: with 's' among the squashed flags, whatever the other flags, the
\* spawn options handed to the spawn primitive (and shown to the 'before'
\* notification) bind stdout and stderr to the null sink and stdin to the
\* null source.
C10_SilentBindsNull ==
    (Has(frame.flags, "s") /\ SpawnsOf(hop) # {})
       => /\ frame.popen_kws.stdout = Stream("devnull_writable", ncalls)
          /\ frame.popen_kws.stderr = Stream("devnull_writable", ncalls)
          /\ frame.popen_kws.stdin = Stream("devnull_readable", ncalls)
          /\ \A i \in SigOf(hop, "runner.execute.before") :
                signals[i].popen_kws = frame.popen_kws

\* A spawn has been made with 's' and 'p' both set.
C10_Witness ==
    /\ Has(frame.flags, "s") /\ Has(frame.flags, "p")
    /\ SpawnOk(hop)

(* ------------------------------------------------------------------ *)
(* C11                                                                 *)
(* ------------------------------------------------------------------ *)

\* The flag string with every L and every lowercase l deleted.
Cancelled(flags, L) == Without(flags, {L, lower[L]})

\* C11: an uppercase flag cancels its lowercase counterpart before the
\* flags are interpreted: the squash step of a call whose flag string
\* contains an uppercase letter L leaves the call in the very state (same
\* request, same flags to interpret, everything else untouched) that the
\* squash step leaves a call with every L and every l deleted from its
\* flag string, so all that follows is the same; flags "rF" and "rfF" are
\* interpreted as "r".
C11_UppercaseCancels ==
    [][pc = "squash" =>
         /\ \A L \in UpperFlags :
               Has(frame.flags, L) =>
                  /\ frame' = [frame EXCEPT !.flags = squash_flags(Cancelled(frame.flags, L))]
                  /\ pc' = "defaults"
                  /\ UNCHANGED <<hop, arg, environ, ui, zombies, ncalls,
                                 openFiles, log, signals, result, suspended>>
         /\ frame.flags \in {<<"r", "F">>, <<"r", "f", "F">>}
               => frame'.flags = <<"r">>]_vars

\* A call whose flag string had an uppercase letter runs with 'r' as its
\* only flag, waiting for the child of its blocking-capable spawn.
C11_Witness ==
    /\ pc = "exit"
    /\ hop = 1
    /\ \E i \in EvOf(1, "squash_flags") : trace[i].out = "changed"
    /\ frame.flags = <<"r">>
    /\ EvOf(1, "Popen") # {} /\ EvOf(1, "wait") # {}

(* ------------------------------------------------------------------ *)
(* C12                                                                 *)
(* ------------------------------------------------------------------ *)

\* C12: squash_flags is idempotent: for every flag string, squashing the
\* squashed string again yields the same string.
C12_SquashIdempotent ==
    [][pc = "squashed" => frame'.flags = frame.flags]_vars

\* A string that the first squash shortened, without emptying it, has been
\* squashed a second time.
C12_Witness ==
    /\ pc = "resquashed"
    /\ trace[1].out = "changed"
    /\ frame.flags # <<>>

(* ------------------------------------------------------------------ *)
(* C13                                                                 *)
(* ------------------------------------------------------------------ *)

\* The uppercase flags present in a flag string.
UpperIn(flags) == { c \in UpperFlags : Has(flags, c) }

\* The flag string with every occurrence of each uppercase flag present,
\* and of that flag's lowercase counterpart, deleted.
PairsDeleted(flags) ==
    Without(flags, UpperIn(flags) \cup { lower[c] : c \in UpperIn(flags) })

\* C13: squash_flags removes negation pairs and nothing else: for every
\* flag string the result is the input with every occurrence of each
\* uppercase flag present, and of its lowercase counterpart, deleted; what
\* remains keeps its order and multiplicity.
C13_RemovesPairsOnly ==
    [][pc = "context" => frame'.flags = PairsDeleted(frame.flags)]_vars

(* ------------------------------------------------------------------ *)
(* C14                                                                 *)
(* ------------------------------------------------------------------ *)

\* C14: after squashing, the flag string that the interpreter reads holds
\* no flag more than once, for every input flag string.
C14_NoDuplicates ==
    pc = "squashed"
       => \A i, j \in DOMAIN frame.flags : frame.flags[i] = frame.flags[j] => i = j

(* ------------------------------------------------------------------ *)
(* C15                                                                 *)
(* ------------------------------------------------------------------ *)

\* The hop runs with 'r' and without 't' among its squashed flags, and the
\* escalation tool was found.
RootNoTerm ==
    /\ pc \in {"suspend", "before", "spawn", "else", "finally", "resume", "exit", "returned"}
    /\ frame.ret = "run"
    /\ Has(frame.flags, "r") /\ ~Has(frame.flags, "t")
    /\ environ.sudo = "yes"

\* C15: with 'r' and without 't' among the squashed flags and the
\* escalation tool available, whatever 'f', 'p', 's' and 'w' say: UI
\* suspension and waiting are decided, the UI (when there is one) is
\* suspended before the spawn, the blocking-capable primitive is the one
\* used, and a hop whose spawn returned a child has waited for it once it
\* leaves the else block, without putting it in the zombie set.
C15_RootForcesWait ==
    RootNoTerm
       => /\ frame.toggle_ui /\ frame.wait
          /\ EvOf(hop, "Popen_forked") = {}
          /\ \A i \in SpawnsOf(hop) :
                /\ trace[i].ev = "Popen"
                /\ ui = "present" => \E j \in EvOf(hop, "suspend") : j < i
          /\ (SpawnOk(hop) /\ pc \in {"finally", "resume", "exit", "returned"})
                => /\ \E i \in EvOf(hop, "wait"), j \in EvOf(hop, "Popen") :
                         /\ j < i
                         /\ trace[i].p = frame.process /\ trace[j].p = frame.process
                   /\ EvOf(hop, "zombie") = {}
                   /\ frame.process # 0
                   /\ frame.process \notin zombies

\* A call with 'p', 'f', 'w' and 'r' has waited for its child with the UI
\* suspended.
C15_Witness ==
    /\ RootNoTerm
    /\ pc = "finally"
    /\ ui = "present"
    /\ Has(frame.flags, "p") /\ Has(frame.flags, "f") /\ Has(frame.flags, "w")
    /\ EvOf(hop, "wait") # {}
    /\ suspended = 1

(* ------------------------------------------------------------------ *)
(* C16                                                                 *)
(* ------------------------------------------------------------------ *)

\* The place of an event name in an order of event names (0: not in it).
PlaceIn(order, name) ==
    IF \E k \in DOMAIN order : name \in order[k]
    THEN CHOOSE k \in DOMAIN order : name \in order[k]
    ELSE 0

\* Within every hop, the events that the order names occur in that order.
InOrder(order) ==
    \A i, j \in DOMAIN trace :
       (/\ i < j
        /\ trace[i].hop = trace[j].hop
        /\ PlaceIn(order, trace[i].ev) # 0
        /\ PlaceIn(order, trace[j].ev) # 0)
          => PlaceIn(order, trace[i].ev) < PlaceIn(order, trace[j].ev)

\* C16 as stated: within one hop the 'before' notification comes first,
\* then the UI suspension, the spawn, the wait or the zombie registration,
\* the 'after' notification, the UI resume.
C16_NotifyThenSuspend ==
    InOrder(<<{"before"}, {"suspend"}, {"Popen", "Popen_forked"},
              {"wait", "zombie"}, {"after"}, {"initialize"}>>)

\* C16, amended: within one hop the UI suspension (when decided) comes
\* first, then the 'before' notification, the spawn, the wait or the
\* zombie registration, the keypress prompt, the 'after' notification, the
\* UI resume (when suspension was decided); a hop that has gone through
\* its execution step has notified 'before' and 'after' and spawned once.
C16_SuspendThenNotify ==
    /\ InOrder(<<{"suspend"}, {"before"}, {"Popen", "Popen_forked"},
                 {"wait", "zombie"}, {"prompt"}, {"after"}, {"initialize"}>>)
    /\ (pc = "exit" /\ frame.ret = "run")
          => /\ Cardinality(EvOf(hop, "before")) = 1
             /\ Cardinality(SpawnsOf(hop)) = 1
             /\ Cardinality(EvOf(hop, "after")) = 1
             /\ (frame.toggle_ui /\ ui = "present")
                   <=> (EvOf(hop, "suspend") # {} /\ EvOf(hop, "initialize") # {})

\* A hop has suspended the UI, notified, spawned, waited, prompted,
\* notified and resumed the UI.
C16_Witness ==
    /\ pc = "exit"
    /\ \A name \in {"suspend", "before", "Popen", "wait", "prompt", "after", "initialize"} :
          EvOf(hop, name) # {}

(* ------------------------------------------------------------------ *)
(* C17                                                                 *)
(* ------------------------------------------------------------------ *)

\* C17: pager chaining is a single extra hop.  A first hop with 'p' among
\* its squashed flags whose spawn returned a handle goes on to the pager;
\* the pager invocation is made once, after the first hop's 'after'
\* notification and UI resume, with the pager action, no flags and the
\* first child's output stream as its input; its result is the result of
\* the call; it does not chain again, so there are at most two hops.
C17_PagerSingleHop ==
    /\ hop \in 0..2
    /\ (hop = 1 /\ pc = "exit" /\ Has(frame.flags, "p") /\ frame.process # 0)
          => Chains(frame)
    /\ hop = 2
          => /\ Cardinality(EvOf(1, "call")) = 1
             /\ \A c \in EvOf(1, "call") :
                   /\ \E a \in EvOf(1, "after") : a < c
                   /\ \A e \in EvOf(1, "after") \cup EvOf(1, "initialize") : e < c
                   /\ trace[c].p = 2 * (ncalls - 1) + 1
             /\ frame.action = Str(<<"less">>)
             /\ frame.flags = <<>>
             /\ frame.popen_kws.stdin = Stream("pipe_of", 2 * (ncalls - 1) + 1)
             /\ pc # "raised"
             /\ pc = "exit" => ~Chains(frame)
             /\ pc = "returned" => result = RetProc(frame.process)

(* ------------------------------------------------------------------ *)
(* C18                                                                 *)
(* ------------------------------------------------------------------ *)

\* C18: whenever a call shows the keypress prompt and reads a line, the
\* same hop has already waited for its child to exit, for every flag
\* combination with 'w'.
C18_PromptAfterWait ==
    \A h \in Hops :
       \A i \in EvOf(h, "prompt") : \E j \in EvOf(h, "wait") : j < i

(* ------------------------------------------------------------------ *)
(* C19                                                                 *)
(* ------------------------------------------------------------------ *)

\* C19: the wait step never runs on an absent process handle: when the
\* wait intent is true at the spawn step, the blocking-capable primitive is
\* the one used; the detached branch ('f' without 'r') is only taken with
\* the wait intent false, and no hop calls wait() on "no process".
C19_WaitHasHandle ==
    /\ (Running /\ frame.wait) => ~UsesForked(frame)
    /\ (Running /\ UsesForked(frame)) => ~frame.wait
    /\ \A h \in Hops :
          /\ EvOf(h, "AttributeError") = {}
          /\ \A i \in EvOf(h, "wait") :
                /\ trace[i].p # 0
                /\ \E j \in EvOf(h, "Popen") : j < i /\ trace[j].p = trace[i].p
          /\ EvOf(h, "wait") # {} => EvOf(h, "Popen_forked") = {}

\* A hop with 'f' and without 'r' has spawned detached and left the else
\* block without waiting.
C19_Witness ==
    /\ pc = "finally"
    /\ UsesForked(frame)
    /\ \E i \in EvOf(hop, "Popen_forked") : trace[i].out = "True"
    /\ EvOf(hop, "wait") = {}

(* ------------------------------------------------------------------ *)
(* C20                                                                 *)
(* ------------------------------------------------------------------ *)

\* The handles that the running call has waited on.
Waited == { trace[i].p : i \in { k \in DOMAIN trace : trace[k].ev = "wait" } }

\* The handles that the blocking-capable primitive returned to the running
\* call.
Returned ==
    { trace[i].p : i \in { k \in DOMAIN trace : trace[k].ev = "Popen" /\ trace[k].out = "ok" } }

\* C20: across the execute calls on one Runner the zombie set only grows;
\* a handle enters it only as the handle that the blocking-capable
\* primitive returned to a hop that does not wait on it, and a handle that
\* a call waited on is not in the zombie set.
C20_ZombiesAccumulate ==
    [][/\ zombies \subseteq zombies'
       /\ \A p \in zombies' \ zombies :
             /\ p = frame.process
             /\ p \in Returned
             /\ ~frame.wait
             /\ p \notin Waited'
       /\ Waited' \cap zombies' = {}]_vars

\* Two calls on the Runner have each left a child in the zombie set.
C20_Witness ==
    /\ pc = "returned"
    /\ ncalls = 2
    /\ zombies = {1, 3}

====
